---- MODULE Spec2Model ----
(***************************************************************************)
(* Chrome MCP beta header management.                                      *)
(*                                                                         *)
(* The module state of chrome-mcp-beta-header.ts is one boolean,           *)
(* chromeInChromeMcpUsed.  The host calls the exported functions of that   *)
(* file and of chrome-mcp-beta-header-integration.ts in any order; every   *)
(* call is synchronous, so one call is one step.                           *)
(*                                                                         *)
(* Encoding of JavaScript values:                                          *)
(*   - a tool name is the sequence of its characters, so that startsWith   *)
(*     is computed character by character;                                 *)
(*   - a beta header value is a TLA+ string; JavaScript null is the atom   *)
(*     NULL, which is no member of HeaderValues;                           *)
(*   - a JavaScript value given as a session record is [type, props]: an   *)
(*     object carries its properties as a TLA+ record, null and undefined  *)
(*     carry none; the value of a property is one of the atoms of          *)
(*     JsValues, each named by its JavaScript literal.                     *)
(***************************************************************************)
EXTENDS Naturals, Sequences, FiniteSets

VARIABLES
    chromeInChromeMcpUsed,  \* the module-level flag
    threw,                  \* TRUE iff the last call ended with an exception
    lastCall,               \* the last call: [op, arg, ret]
    savedState,             \* the host's saved session record
    resume,                 \* history: progress of a save / reset / restore sequence
    marks,                  \* history: calls of markChromeInChromeMcpToolUsed
    seen                    \* history: qualifying tool executions (counted up to
                            \* MaxToolCalls since the last reset), restores of true

vars == <<chromeInChromeMcpUsed, threw, lastCall, savedState, resume, marks, seen>>

-----------------------------------------------------------------------------
(* Bounds of the model *)

MaxSuffixLen == 2
MaxHeaders == 2
MaxToolCalls == 2

-----------------------------------------------------------------------------
(* Program constants *)

CHROME_IN_CHROME_MCP_BETA_HEADER == "browser-use-YYYYMMDD"

CLAUDE_IN_CHROME_MCP_SERVER_NAME ==
    <<"c", "l", "a", "u", "d", "e", "-", "i", "n", "-", "c", "h", "r", "o", "m", "e">>

\* `mcp__${CLAUDE_IN_CHROME_MCP_SERVER_NAME}__`
CHROME_MCP_TOOL_PREFIX ==
    <<"m", "c", "p", "_", "_">> \o CLAUDE_IN_CHROME_MCP_SERVER_NAME \o <<"_", "_">>

CHROME_MCP_SESSION_STATE_KEY == "chromeInChromeMcpUsed"

-----------------------------------------------------------------------------
(* JavaScript semantics used by the code *)

NULL == "null"

\* ToBoolean of a string-or-null value: null and the empty string are falsy.
Truthy(v) == v # NULL /\ v # ""

\* String.prototype.startsWith(searchString), position 0.
startsWith(s, searchString) ==
    /\ Len(s) >= Len(searchString)
    /\ \A i \in 1..Len(searchString) : s[i] = searchString[i]

\* includes(x, 1): the search starts at the second element.
includes_FromSecond(array, x) == \E i \in 2..Len(array) : array[i] = x

\* Array.prototype.includes(x) on an array of strings.
includes(array, x) == \E i \in 1..Len(array) : array[i] = x

Obj(props) == [type |-> "object", props |-> props]

\* Reading a property of null or undefined throws a TypeError.
IsNullish(v) == v.type \in {"null", "undefined"}

\* Property read o[key] of an object: undefined when the property is missing.
Get(o, key) == IF key \in DOMAIN o.props THEN o.props[key] ELSE "undefined"

\* The boolean b as a JavaScript value.
JsBoolean(b) == IF b THEN "true" ELSE "false"

-----------------------------------------------------------------------------
(* Inputs *)

\* Sequences over S of length at most n.
RECURSIVE SeqsUpTo(_, _)
SeqsUpTo(S, n) ==
    IF n = 0 THEN {<<>>}
    ELSE LET shorter == SeqsUpTo(S, n - 1)
         IN  shorter \cup {Append(s, x) : s \in {t \in shorter : Len(t) = n - 1}, x \in S}

\* The literal "mcp__claude-in-chrome__".
QualifyingPrefix ==
    <<"m", "c", "p", "_", "_", "c", "l", "a", "u", "d", "e", "-", "i", "n", "-",
      "c", "h", "r", "o", "m", "e", "_", "_">>

ServerNames ==
    { <<"c", "l", "a", "u", "d", "e", "-", "i", "n", "-", "c", "h", "r", "o", "m", "e">>,
      <<"c", "l", "a", "u", "d", "e", "-", "i", "n", "-", "c", "h", "r", "o", "m", "e",
        "-", "d", "e", "v">>,
      <<"c", "l", "a", "u", "d", "e", "_", "i", "n", "_", "c", "h", "r", "o", "m", "e">>,
      <<"f", "i", "l", "e", "s", "y", "s", "t", "e", "m">> }

Suffixes ==
    SeqsUpTo({"x", "_"}, MaxSuffixLen)
        \cup { <<"n", "a", "v", "i", "g", "a", "t", "e">>, <<"c", "l", "i", "c", "k">>,
               <<"r", "e", "a", "d">> }

\* The host's name of the tool `tool` of the MCP server `server`.
McpToolName(server, tool) == <<"m", "c", "p", "_", "_">> \o server \o <<"_", "_">> \o tool

ToolNames ==
    {McpToolName(server, tool) : server \in ServerNames, tool \in Suffixes}
        \cup {SubSeq(QualifyingPrefix, 1, k) : k \in 0..(Len(QualifyingPrefix) - 1)}
        \cup { <<"R", "e", "a", "d">>,
               <<"B", "a", "s", "h">>,
               <<" ">> \o QualifyingPrefix \o <<"c", "l", "i", "c", "k">>,
               <<"M", "C", "P", "_", "_", "C", "L", "A", "U", "D", "E", "-", "I", "N", "-",
                 "C", "H", "R", "O", "M", "E", "_", "_", "c", "l", "i", "c", "k">> }

HeaderValues == {"beta-1", "browser-use", "browser-use-YYYYMMDD"}

HeaderLists == SeqsUpTo(HeaderValues, MaxHeaders)

JsValues == {"true", "false", "undefined", "null", "'true'", "1", "0"}

EmptyRecord == [k \in {} |-> "undefined"]

\* Session records: the field present with any value, missing, or among other fields.
SessionRecords ==
    {Obj([chromeInChromeMcpUsed |-> v]) : v \in JsValues}
        \cup {Obj([sessionId |-> "s1", chromeInChromeMcpUsed |-> v]) : v \in JsValues}
        \cup {Obj(EmptyRecord), Obj([sessionId |-> "s1"])}

NonObjects == {[type |-> "null"], [type |-> "undefined"]}

\* The tool names given to the PostToolUse hook: the named tools of every
\* server, a built-in tool, the prefix alone, its longest proper prefix and "".
HookToolNames ==
    {McpToolName(server, tool) :
         server \in ServerNames,
         tool \in { <<"n", "a", "v", "i", "g", "a", "t", "e">>, <<"c", "l", "i", "c", "k">> }}
        \cup { <<"R", "e", "a", "d">>,
               QualifyingPrefix,
               SubSeq(QualifyingPrefix, 1, Len(QualifyingPrefix) - 1),
               <<>> }

\* Tool inputs and tool results (of type unknown), each named by its literal.
ToolInputs == {"undefined", "{url: 'https://example.com'}"}

ToolResults == {"{ok: true}", "{is_error: true}"}

-----------------------------------------------------------------------------
(* chrome-mcp-beta-header.ts *)

\* toolName.includes(CHROME_MCP_TOOL_PREFIX): the prefix occurs anywhere.
isChromeInChromeMcpTool_Includes(toolName) ==
    \E k \in 0..Len(toolName) :
        /\ k + Len(CHROME_MCP_TOOL_PREFIX) <= Len(toolName)
        /\ \A i \in 1..Len(CHROME_MCP_TOOL_PREFIX) :
               toolName[k + i] = CHROME_MCP_TOOL_PREFIX[i]

isChromeInChromeMcpTool(toolName) == startsWith(toolName, CHROME_MCP_TOOL_PREFIX)

\* chromeInChromeMcpUsed = !chromeInChromeMcpUsed
markChromeInChromeMcpToolUsed_Toggle ==
    /\ chromeInChromeMcpUsed' = ~chromeInChromeMcpUsed
    /\ marks' = [ever |-> TRUE, sinceReset |-> TRUE]

markChromeInChromeMcpToolUsed ==
    /\ chromeInChromeMcpUsed' = TRUE
    /\ marks' = [ever |-> TRUE, sinceReset |-> TRUE]

hasChromeInChromeMcpBeenUsed == chromeInChromeMcpUsed

getChromeInChromeMcpBetaHeader_Always == CHROME_IN_CHROME_MCP_BETA_HEADER

getChromeInChromeMcpBetaHeader ==
    IF chromeInChromeMcpUsed THEN CHROME_IN_CHROME_MCP_BETA_HEADER ELSE NULL

\* return { chromeInChromeMcpUsed: false }
getSessionState_AlwaysFalse == Obj([chromeInChromeMcpUsed |-> "false"])

getSessionState_WrongKey ==
    Obj([CHROME_MCP_SESSION_STATE_KEY |-> JsBoolean(chromeInChromeMcpUsed)])

getSessionState == Obj([chromeInChromeMcpUsed |-> JsBoolean(chromeInChromeMcpUsed)])

restoreSessionState_Assign(state) ==
    IF IsNullish(state)
    THEN threw' = TRUE /\ UNCHANGED chromeInChromeMcpUsed
    ELSE /\ threw' = FALSE
         /\ chromeInChromeMcpUsed' = (Get(state, "chromeInChromeMcpUsed") = "true")

restoreSessionState_Coerce(state) ==
    IF IsNullish(state)
    THEN threw' = TRUE /\ UNCHANGED chromeInChromeMcpUsed
    ELSE /\ threw' = FALSE
         /\ IF Get(state, "chromeInChromeMcpUsed") \in {"true", "'true'", "1"}
            THEN chromeInChromeMcpUsed' = TRUE
            ELSE UNCHANGED chromeInChromeMcpUsed

restoreSessionState_Strict(state) ==
    IF \/ IsNullish(state)
       \/ Get(state, "chromeInChromeMcpUsed") \notin {"true", "false", "undefined"}
    THEN threw' = TRUE /\ UNCHANGED chromeInChromeMcpUsed
    ELSE /\ threw' = FALSE
         /\ IF Get(state, "chromeInChromeMcpUsed") = "true"
            THEN chromeInChromeMcpUsed' = TRUE
            ELSE UNCHANGED chromeInChromeMcpUsed

\* Reading a property of null or undefined throws a TypeError before any write.
restoreSessionState(state) ==
    IF IsNullish(state)
    THEN threw' = TRUE /\ UNCHANGED chromeInChromeMcpUsed
    ELSE /\ threw' = FALSE
         /\ IF Get(state, "chromeInChromeMcpUsed") = "true"
            THEN chromeInChromeMcpUsed' = TRUE
            ELSE UNCHANGED chromeInChromeMcpUsed

\* The assignment is missing.
resetState_NoOp == UNCHANGED chromeInChromeMcpUsed

resetState == chromeInChromeMcpUsed' = FALSE

-----------------------------------------------------------------------------
(* chrome-mcp-beta-header-integration.ts *)

onToolExecuted_Always(toolName) == markChromeInChromeMcpToolUsed

onToolExecuted_Never(toolName) == UNCHANGED <<chromeInChromeMcpUsed, marks>>

onToolExecuted(toolName) ==
    IF isChromeInChromeMcpTool(toolName)
    THEN markChromeInChromeMcpToolUsed
    ELSE UNCHANGED <<chromeInChromeMcpUsed, marks>>

addChromeMcpBetaHeaderIfNeeded_NoDedup(existingBetaHeaders) ==
    LET chromeBetaHeader == getChromeInChromeMcpBetaHeader
    IN  IF Truthy(chromeBetaHeader)
        THEN existingBetaHeaders \o <<chromeBetaHeader>>
        ELSE existingBetaHeaders

addChromeMcpBetaHeaderIfNeeded_Prepend(existingBetaHeaders) ==
    LET chromeBetaHeader == getChromeInChromeMcpBetaHeader
    IN  IF Truthy(chromeBetaHeader) /\ ~includes(existingBetaHeaders, chromeBetaHeader)
        THEN <<chromeBetaHeader>> \o existingBetaHeaders
        ELSE existingBetaHeaders

addChromeMcpBetaHeaderIfNeeded(existingBetaHeaders) ==
    LET chromeBetaHeader == getChromeInChromeMcpBetaHeader
    IN  IF Truthy(chromeBetaHeader) /\ ~includes(existingBetaHeaders, chromeBetaHeader)
        THEN existingBetaHeaders \o <<chromeBetaHeader>>
        ELSE existingBetaHeaders

\* existingBetaHeaders.push(chromeBetaHeader); return existingBetaHeaders
addChromeMcpBetaHeaderIfNeededOnHeap_Push(heap, existingBetaHeaders) ==
    LET chromeBetaHeader == getChromeInChromeMcpBetaHeader
    IN  IF /\ Truthy(chromeBetaHeader)
           /\ ~includes(heap[existingBetaHeaders], chromeBetaHeader)
        THEN [heap |-> [heap EXCEPT ![existingBetaHeaders] = Append(@, chromeBetaHeader)],
              ref |-> existingBetaHeaders]
        ELSE [heap |-> heap, ref |-> existingBetaHeaders]

\* The same function on array references: heap[r] is the contents of the array
\* r and existingBetaHeaders is the reference the caller passes.  The spread
\* [...existingBetaHeaders, chromeBetaHeader] allocates a new array; the other
\* branch returns the reference it was given.  The result is the heap after
\* the call and the reference returned.
addChromeMcpBetaHeaderIfNeededOnHeap(heap, existingBetaHeaders) ==
    LET chromeBetaHeader == getChromeInChromeMcpBetaHeader
    IN  IF /\ Truthy(chromeBetaHeader)
           /\ ~includes(heap[existingBetaHeaders], chromeBetaHeader)
        THEN [heap |-> Append(heap, heap[existingBetaHeaders] \o <<chromeBetaHeader>>),
              ref |-> Len(heap) + 1]
        ELSE [heap |-> heap, ref |-> existingBetaHeaders]

getChromeMcpSessionState == getSessionState

\* Marks only when the tool result is no error.
handleChromeInChromeMcpToolUse_OnSuccess(toolName, toolInput, toolResult) ==
    IF isChromeInChromeMcpTool(toolName) /\ toolResult # "{is_error: true}"
    THEN markChromeInChromeMcpToolUsed
    ELSE UNCHANGED <<chromeInChromeMcpUsed, marks>>

handleChromeInChromeMcpToolUse(toolName, toolInput, toolResult) ==
    IF isChromeInChromeMcpTool(toolName)
    THEN markChromeInChromeMcpToolUsed
    ELSE UNCHANGED <<chromeInChromeMcpUsed, marks>>

\* Reading savedState.chromeInChromeMcpUsed throws when savedState is null or
\* undefined; otherwise a fresh one-field record is passed on.
restoreChromeMcpSessionState(savedStateArg) ==
    IF IsNullish(savedStateArg)
    THEN threw' = TRUE /\ UNCHANGED chromeInChromeMcpUsed
    ELSE restoreSessionState(
             Obj([chromeInChromeMcpUsed |-> Get(savedStateArg, "chromeInChromeMcpUsed")]))

-----------------------------------------------------------------------------
(* The calls of the host, one step each *)

Call(op, arg, ret) == [op |-> op, arg |-> arg, ret |-> ret]

NoResume == [step |-> 0, used |-> FALSE]

Min(a, b) == IF a <= b THEN a ELSE b

\* A read that also sets the flag.
Query_Marking(op, arg, ret) ==
    /\ lastCall' = Call(op, arg, ret)
    /\ threw' = FALSE
    /\ chromeInChromeMcpUsed' = TRUE
    /\ UNCHANGED <<savedState, resume, marks, seen>>

\* A call that reads only: nothing but lastCall changes.
Query(op, arg, ret) ==
    /\ lastCall' = Call(op, arg, ret)
    /\ threw' = FALSE
    /\ UNCHANGED <<chromeInChromeMcpUsed, savedState, resume, marks, seen>>

CallIsChromeInChromeMcpTool ==
    \E toolName \in ToolNames :
        Query("isChromeInChromeMcpTool", toolName, isChromeInChromeMcpTool(toolName))

CallMarkChromeInChromeMcpToolUsed ==
    /\ markChromeInChromeMcpToolUsed
    /\ lastCall' = Call("markChromeInChromeMcpToolUsed", "-", "void")
    /\ threw' = FALSE
    /\ resume' = NoResume
    /\ UNCHANGED <<savedState, seen>>

CallHasChromeInChromeMcpBeenUsed ==
    Query("hasChromeInChromeMcpBeenUsed", "-", hasChromeInChromeMcpBeenUsed)

CallGetChromeInChromeMcpBetaHeader ==
    Query("getChromeInChromeMcpBetaHeader", "-", getChromeInChromeMcpBetaHeader)

\* The host keeps the returned record as its saved session state.
SaveSession(op, record) ==
    /\ lastCall' = Call(op, "-", record)
    /\ savedState' = record
    /\ resume' = [step |-> 1, used |-> chromeInChromeMcpUsed]
    /\ threw' = FALSE
    /\ UNCHANGED <<chromeInChromeMcpUsed, marks, seen>>

CallGetSessionState == SaveSession("getSessionState", getSessionState)

CallGetChromeMcpSessionState ==
    SaveSession("getChromeMcpSessionState", getChromeMcpSessionState)

\* The bookkeeping of a restore call with argument `state`.
RestoreSession(op, state) ==
    /\ lastCall' = Call(op, state, "void")
    /\ resume' = IF resume.step = 2 /\ ~IsNullish(state) /\ state = savedState
                 THEN [resume EXCEPT !.step = 3]
                 ELSE NoResume
    /\ seen' = IF ~IsNullish(state) /\ Get(state, "chromeInChromeMcpUsed") = "true"
               THEN [seen EXCEPT !.restoredTrue = TRUE, !.restoredTrueSinceReset = TRUE]
               ELSE seen
    /\ UNCHANGED <<savedState, marks>>

CallRestoreSessionState ==
    \/ \E state \in SessionRecords \cup {savedState} :
           restoreSessionState(state) /\ RestoreSession("restoreSessionState", state)
    \/ \E state \in NonObjects :
           restoreSessionState(state) /\ RestoreSession("restoreSessionState", state)

CallRestoreChromeMcpSessionState ==
    \/ \E state \in SessionRecords \cup {savedState} :
           /\ restoreChromeMcpSessionState(state)
           /\ RestoreSession("restoreChromeMcpSessionState", state)
    \/ \E state \in NonObjects :
           /\ restoreChromeMcpSessionState(state)
           /\ RestoreSession("restoreChromeMcpSessionState", state)

CallResetState ==
    /\ resetState
    /\ lastCall' = Call("resetState", "-", "void")
    /\ threw' = FALSE
    /\ resume' = IF resume.step = 1 THEN [resume EXCEPT !.step = 2] ELSE NoResume
    /\ marks' = [marks EXCEPT !.sinceReset = FALSE]
    /\ seen' = [seen EXCEPT !.toolSinceReset = 0, !.restoredTrueSinceReset = FALSE]
    /\ UNCHANGED savedState

CallOnToolExecuted ==
    \E toolName \in ToolNames :
        /\ onToolExecuted(toolName)
        /\ lastCall' = Call("onToolExecuted", toolName, "void")
        /\ threw' = FALSE
        /\ resume' = NoResume
        /\ seen' = IF startsWith(toolName, QualifyingPrefix)
                   THEN [seen EXCEPT !.tool = TRUE,
                                     !.toolSinceReset = Min(@ + 1, MaxToolCalls)]
                   ELSE seen
        /\ UNCHANGED savedState

CallHandleChromeInChromeMcpToolUse ==
    \E toolName \in HookToolNames, toolInput \in ToolInputs, toolResult \in ToolResults :
        /\ handleChromeInChromeMcpToolUse(toolName, toolInput, toolResult)
        /\ lastCall' = Call("handleChromeInChromeMcpToolUse",
                            [toolName |-> toolName, toolInput |-> toolInput,
                             toolResult |-> toolResult], "void")
        /\ threw' = FALSE
        /\ resume' = NoResume
        /\ UNCHANGED <<savedState, seen>>

\* The host builds a request from a list of its own, or from the list the
\* previous call returned.  The list is the host's array 1; lastCall keeps
\* the arrays as they are after the call and the reference returned.
CallAddChromeMcpBetaHeaderIfNeeded ==
    \E existingBetaHeaders \in
            HeaderLists \cup (IF lastCall.op = "addChromeMcpBetaHeaderIfNeeded"
                              THEN {lastCall.ret} ELSE {}) :
        LET after == addChromeMcpBetaHeaderIfNeededOnHeap(<<existingBetaHeaders>>, 1)
        IN  /\ lastCall' = [op |-> "addChromeMcpBetaHeaderIfNeeded",
                            arg |-> existingBetaHeaders,
                            ret |-> addChromeMcpBetaHeaderIfNeeded(existingBetaHeaders),
                            heap |-> after.heap,
                            ref |-> after.ref]
            /\ threw' = FALSE
            /\ UNCHANGED <<chromeInChromeMcpUsed, savedState, resume, marks, seen>>

Init ==
    /\ chromeInChromeMcpUsed = FALSE
    /\ threw = FALSE
    /\ lastCall = Call("init", "-", "void")
    /\ savedState = Obj(EmptyRecord)
    /\ resume = NoResume
    /\ marks = [ever |-> FALSE, sinceReset |-> FALSE]
    /\ seen = [restoredTrue |-> FALSE, restoredTrueSinceReset |-> FALSE,
               tool |-> FALSE, toolSinceReset |-> 0]

Next ==
    \/ CallIsChromeInChromeMcpTool
    \/ CallMarkChromeInChromeMcpToolUsed
    \/ CallHasChromeInChromeMcpBeenUsed
    \/ CallGetChromeInChromeMcpBetaHeader
    \/ CallGetSessionState
    \/ CallGetChromeMcpSessionState
    \/ CallRestoreSessionState
    \/ CallRestoreChromeMcpSessionState
    \/ CallResetState
    \/ CallOnToolExecuted
    \/ CallHandleChromeInChromeMcpToolUse
    \/ CallAddChromeMcpBetaHeaderIfNeeded

Spec == Init /\ [][Next]_vars

-----------------------------------------------------------------------------
(* Properties *)

\* Number of occurrences of x in the list.
Count(list, x) == Cardinality({i \in 1..Len(list) : list[i] = x})

IsRestore(call) == call.op \in {"restoreSessionState", "restoreChromeMcpSessionState"}

\* The chromeInChromeMcpUsed property of the record a restore call was given.
RestoredField(call) == Get(call.arg, "chromeInChromeMcpUsed")

\* C1: the flag is monotone: a step that takes the flag from true to false is
\* a resetState call; every other call leaves a true flag true.
C1_FlagFallsOnlyByReset ==
    [][(chromeInChromeMcpUsed /\ ~chromeInChromeMcpUsed') => lastCall'.op = "resetState"]_vars

\* A true flag has survived the restore of a record that says "not used".
C1_Witness ==
    /\ chromeInChromeMcpUsed
    /\ lastCall.op = "restoreChromeMcpSessionState"
    /\ ~IsNullish(lastCall.arg)
    /\ RestoredField(lastCall) = "false"

\* C2 as stated: once a qualifying tool was executed, every later
\* addChromeMcpBetaHeaderIfNeeded call returns a list that contains the marker.
C2_MarkerAfterAnyEarlierToolUse ==
    (lastCall.op = "addChromeMcpBetaHeaderIfNeeded" /\ seen.tool)
        => includes(lastCall.ret, CHROME_IN_CHROME_MCP_BETA_HEADER)

\* C2, amended: once a qualifying tool was executed, every later
\* addChromeMcpBetaHeaderIfNeeded call with no resetState call in between
\* returns a list that contains the marker.
C2_MarkerAfterToolUseSinceReset ==
    (lastCall.op = "addChromeMcpBetaHeaderIfNeeded" /\ seen.toolSinceReset >= 1)
        => includes(lastCall.ret, CHROME_IN_CHROME_MCP_BETA_HEADER)

\* A request built from a list without the marker, after a tool execution was
\* the only thing that set the flag.
C2_Witness ==
    /\ lastCall.op = "addChromeMcpBetaHeaderIfNeeded"
    /\ seen.toolSinceReset >= 1
    /\ ~seen.restoredTrue
    /\ lastCall.arg = <<"beta-1">>
    /\ lastCall.ret = <<"beta-1", "browser-use-YYYYMMDD">>

\* C3: restoreSessionState is an OR-merge: the flag after restoring a record
\* is the flag before OR-ed with (the record's field is exactly true).
C3_RestoreIsOrMerge ==
    [][(lastCall'.op = "restoreSessionState" /\ ~IsNullish(lastCall'.arg))
          => chromeInChromeMcpUsed' =
                 (chromeInChromeMcpUsed \/ RestoredField(lastCall') = "true")]_vars

\* The flag is true right after restoring {chromeInChromeMcpUsed: false}.
C3_Witness ==
    /\ chromeInChromeMcpUsed
    /\ lastCall.op = "restoreSessionState"
    /\ lastCall.arg = Obj([chromeInChromeMcpUsed |-> "false"])

\* C4: resume round trip: after getSessionState (or getChromeMcpSessionState)
\* at flag value v, then resetState, then a restore of the saved record, the
\* flag is v again; when v is true a request built from [] has one element.
C4_ResumeRoundTrip ==
    resume.step = 3
        => /\ hasChromeInChromeMcpBeenUsed = resume.used
           /\ resume.used => Len(addChromeMcpBetaHeaderIfNeeded(<<>>)) = 1

\* A used session was saved, reset and restored through the integration pair.
C4_Witness ==
    /\ resume.step = 3
    /\ resume.used
    /\ lastCall.op = "restoreChromeMcpSessionState"
    /\ lastCall.arg = savedState

\* C5: addChromeMcpBetaHeaderIfNeeded(L) is L when the flag is false, L when
\* the flag is true and L contains the marker, and otherwise L with the marker
\* appended as the last element (L is a prefix, the length grows by one).
C5_AddThreeCases ==
    lastCall.op = "addChromeMcpBetaHeaderIfNeeded"
        => LET L == lastCall.arg
               R == lastCall.ret
               present == \E i \in 1..Len(L) : L[i] = CHROME_IN_CHROME_MCP_BETA_HEADER
           IN  /\ ~chromeInChromeMcpUsed => R = L
               /\ (chromeInChromeMcpUsed /\ present) => R = L
               /\ (chromeInChromeMcpUsed /\ ~present)
                     => /\ Len(R) = Len(L) + 1
                        /\ R[Len(R)] = CHROME_IN_CHROME_MCP_BETA_HEADER
                        /\ \A i \in 1..Len(L) : R[i] = L[i]

\* The marker was appended after two other values, one of them a proper
\* prefix of the marker.
C5_Witness ==
    /\ chromeInChromeMcpUsed
    /\ lastCall.op = "addChromeMcpBetaHeaderIfNeeded"
    /\ lastCall.arg = <<"browser-use", "beta-1">>
    /\ lastCall.ret = <<"browser-use", "beta-1", "browser-use-YYYYMMDD">>

\* C6: onToolExecuted(name) leaves the flag at (flag before OR
\* isChromeInChromeMcpTool(name)); "Read", "Bash" and "mcp__filesystem__read"
\* leave the flag unchanged.
C6_OnToolExecutedFilters ==
    [][lastCall'.op = "onToolExecuted"
          => /\ chromeInChromeMcpUsed' =
                    (chromeInChromeMcpUsed \/ isChromeInChromeMcpTool(lastCall'.arg))
             /\ lastCall'.arg \in
                    { <<"R", "e", "a", "d">>, <<"B", "a", "s", "h">>,
                      McpToolName(<<"f", "i", "l", "e", "s", "y", "s", "t", "e", "m">>,
                                  <<"r", "e", "a", "d">>) }
                  => UNCHANGED chromeInChromeMcpUsed]_vars

\* The flag is still false right after onToolExecuted("mcp__filesystem__read").
C6_Witness ==
    /\ ~chromeInChromeMcpUsed
    /\ lastCall.op = "onToolExecuted"
    /\ lastCall.arg = McpToolName(<<"f", "i", "l", "e", "s", "y", "s", "t", "e", "m">>,
                                  <<"r", "e", "a", "d">>)

\* C7 as stated: getChromeInChromeMcpBetaHeader returns null on every call
\* before the first markChromeInChromeMcpToolUsed call and the constant on
\* every call after one.
C7_NullBeforeMarkConstantAfter ==
    lastCall.op = "getChromeInChromeMcpBetaHeader"
        => /\ ~marks.ever => lastCall.ret = NULL
           /\ marks.ever => lastCall.ret = CHROME_IN_CHROME_MCP_BETA_HEADER

\* C7, amended: it returns null on every call made before the first
\* markChromeInChromeMcpToolUsed call and before any restore of a record whose
\* field is exactly true, and the constant on every call made after a
\* markChromeInChromeMcpToolUsed call with no resetState call in between.
C7_NullBeforeMarkOrRestoreConstantUntilReset ==
    lastCall.op = "getChromeInChromeMcpBetaHeader"
        => /\ (~marks.ever /\ ~seen.restoredTrue) => lastCall.ret = NULL
           /\ marks.sinceReset => lastCall.ret = CHROME_IN_CHROME_MCP_BETA_HEADER

\* The constant was returned after a mark, with a restore of "not used" behind it.
C7_Witness ==
    /\ lastCall.op = "getChromeInChromeMcpBetaHeader"
    /\ marks.sinceReset
    /\ ~seen.restoredTrue
    /\ seen.toolSinceReset = 0
    /\ lastCall.ret = "browser-use-YYYYMMDD"

\* C8: no duplicate marker: after one or more qualifying onToolExecuted calls
\* (none undone by resetState) a request built from [] holds the marker exactly
\* once; a list with at most one marker yields a result with at most one, also
\* when that list is a result fed back.
C8_NoDuplicateMarker ==
    /\ seen.toolSinceReset >= 1
          => Count(addChromeMcpBetaHeaderIfNeeded(<<>>), CHROME_IN_CHROME_MCP_BETA_HEADER) = 1
    /\ (lastCall.op = "addChromeMcpBetaHeaderIfNeeded"
          /\ Count(lastCall.arg, CHROME_IN_CHROME_MCP_BETA_HEADER) <= 1)
          => Count(lastCall.ret, CHROME_IN_CHROME_MCP_BETA_HEADER) <= 1

\* After several qualifying tool executions, a result that already carries the
\* marker behind MaxHeaders other values was fed back and came out unchanged.
C8_Witness ==
    /\ seen.toolSinceReset = MaxToolCalls
    /\ lastCall.op = "addChromeMcpBetaHeaderIfNeeded"
    /\ Len(lastCall.arg) = MaxHeaders + 1
    /\ Count(lastCall.arg, CHROME_IN_CHROME_MCP_BETA_HEADER) = 1
    /\ lastCall.ret = lastCall.arg

\* C9: restoring a record whose field is malformed (a string, a number, null)
\* or missing leaves the flag unchanged and does not throw.
C9_MalformedFieldIsNoOp ==
    [][(IsRestore(lastCall') /\ ~IsNullish(lastCall'.arg)
          /\ RestoredField(lastCall') \notin {"true", "false"})
          => (UNCHANGED chromeInChromeMcpUsed /\ ~threw')]_vars

\* The flag is still false after restoring {chromeInChromeMcpUsed: "true"}
\* (the string).
C9_Witness ==
    /\ ~chromeInChromeMcpUsed
    /\ ~threw
    /\ lastCall.op = "restoreSessionState"
    /\ lastCall.arg = Obj([chromeInChromeMcpUsed |-> "'true'"])

\* C10: isChromeInChromeMcpTool(s) is true exactly when s is
\* "mcp__claude-in-chrome__" followed by some (possibly empty) suffix; it is
\* false for the empty string and for every proper prefix of the prefix.
C10_PrefixPredicate ==
    lastCall.op = "isChromeInChromeMcpTool"
        => LET s == lastCall.arg
           IN  /\ lastCall.ret =
                      (\E k \in 0..Len(s) : s = QualifyingPrefix \o SubSeq(s, k + 1, Len(s)))
               /\ s = QualifyingPrefix => lastCall.ret = TRUE
               /\ Len(s) < Len(QualifyingPrefix) => lastCall.ret = FALSE

\* The prefix alone (empty suffix) qualifies.
C10_Witness ==
    /\ lastCall.op = "isChromeInChromeMcpTool"
    /\ lastCall.arg = QualifyingPrefix
    /\ lastCall.ret = TRUE

\* C11: addChromeMcpBetaHeaderIfNeeded is idempotent: a call given the list
\* the previous call returned (no other call in between, so the flag is the
\* same) returns that list again: add(add(L)) = add(L).
C11_AddIdempotent ==
    [][(/\ lastCall.op = "addChromeMcpBetaHeaderIfNeeded"
        /\ lastCall'.op = "addChromeMcpBetaHeaderIfNeeded"
        /\ lastCall'.arg = lastCall.ret)
          => lastCall'.ret = lastCall.ret]_vars

\* With the flag set by a direct mark, a result of MaxHeaders other values
\* followed by the appended marker was given back and returned as it is.
C11_Witness ==
    /\ chromeInChromeMcpUsed
    /\ seen.toolSinceReset = 0
    /\ lastCall.op = "addChromeMcpBetaHeaderIfNeeded"
    /\ Len(lastCall.arg) = MaxHeaders + 1
    /\ lastCall.arg[MaxHeaders + 1] = CHROME_IN_CHROME_MCP_BETA_HEADER
    /\ \A i \in 1..MaxHeaders : lastCall.arg[i] = "beta-1"
    /\ lastCall.ret = lastCall.arg

\* C12: markChromeInChromeMcpToolUsed is idempotent: every call leaves the
\* flag true, and a call that follows another one changes nothing.
C12_MarkIdempotent ==
    [][lastCall'.op = "markChromeInChromeMcpToolUsed"
          => /\ chromeInChromeMcpUsed' = TRUE
             /\ hasChromeInChromeMcpBeenUsed' = TRUE
             /\ lastCall.op = "markChromeInChromeMcpToolUsed"
                  => UNCHANGED chromeInChromeMcpUsed]_vars

\* A direct mark call on a flag that an earlier mark (made by the tool hook)
\* had already set.
C12_Witness ==
    /\ chromeInChromeMcpUsed
    /\ lastCall.op = "markChromeInChromeMcpToolUsed"
    /\ seen.toolSinceReset >= 1
    /\ ~seen.restoredTrue

\* C13: the three observers agree in every state: hasChromeInChromeMcpBeenUsed()
\* is true iff getChromeInChromeMcpBetaHeader() is non-null, and then it is the
\* constant, iff getSessionState().chromeInChromeMcpUsed is true; what a call
\* of an observer returned agrees with them; initially all report unused.
C13_ObserversAgree ==
    /\ hasChromeInChromeMcpBeenUsed <=> getChromeInChromeMcpBetaHeader # NULL
    /\ hasChromeInChromeMcpBeenUsed
          <=> getChromeInChromeMcpBetaHeader = "browser-use-YYYYMMDD"
    /\ hasChromeInChromeMcpBeenUsed
          <=> Get(getSessionState, "chromeInChromeMcpUsed") = "true"
    /\ ~hasChromeInChromeMcpBeenUsed
          <=> Get(getSessionState, "chromeInChromeMcpUsed") = "false"
    /\ lastCall.op = "hasChromeInChromeMcpBeenUsed"
          => (lastCall.ret <=> getChromeInChromeMcpBetaHeader # NULL)
    /\ lastCall.op = "getChromeInChromeMcpBetaHeader"
          => (lastCall.ret # NULL <=> Get(getSessionState, "chromeInChromeMcpUsed") = "true")
    /\ lastCall.op = "getSessionState"
          => (Get(lastCall.ret, "chromeInChromeMcpUsed") = "true"
                <=> hasChromeInChromeMcpBeenUsed)
    /\ lastCall.op = "init"
          => /\ ~hasChromeInChromeMcpBeenUsed
             /\ getChromeInChromeMcpBetaHeader = NULL
             /\ Get(getSessionState, "chromeInChromeMcpUsed") = "false"

\* A snapshot reports "used" for a flag that only a restore had set.
C13_Witness ==
    /\ lastCall.op = "getSessionState"
    /\ Get(lastCall.ret, "chromeInChromeMcpUsed") = "true"
    /\ hasChromeInChromeMcpBeenUsed
    /\ getChromeInChromeMcpBetaHeader = "browser-use-YYYYMMDD"
    /\ seen.restoredTrue
    /\ ~marks.ever

\* C14: the query operations leave the flag unchanged, whatever its value and
\* whatever their arguments.
C14_QueriesKeepFlag ==
    [][lastCall'.op \in {"isChromeInChromeMcpTool", "hasChromeInChromeMcpBeenUsed",
                         "getChromeInChromeMcpBetaHeader", "getSessionState",
                         "addChromeMcpBetaHeaderIfNeeded"}
          => UNCHANGED chromeInChromeMcpUsed]_vars

\* Asking whether a qualifying name qualifies did not set the flag.
C14_Witness ==
    /\ ~chromeInChromeMcpUsed
    /\ lastCall.op = "isChromeInChromeMcpTool"
    /\ lastCall.arg = QualifyingPrefix \o <<"c", "l", "i", "c", "k">>
    /\ lastCall.ret = TRUE

\* A call that sets the flag: a mark, the execution of a tool whose name has
\* the prefix, or the restore of a record whose field is exactly true.
SetsFlag(call) ==
    \/ call.op = "markChromeInChromeMcpToolUsed"
    \/ call.op = "onToolExecuted" /\ startsWith(call.arg, QualifyingPrefix)
    \/ IsRestore(call) /\ ~IsNullish(call.arg) /\ RestoredField(call) = "true"

IsFlagSetter(call) ==
    \/ call.op \in {"markChromeInChromeMcpToolUsed", "onToolExecuted"}
    \/ IsRestore(call) /\ ~IsNullish(call.arg)

\* No mark, qualifying tool execution or restore of true since the last
\* resetState (or since the start).
NothingSetSinceReset ==
    /\ ~marks.sinceReset
    /\ seen.toolSinceReset = 0
    /\ ~seen.restoredTrueSinceReset

\* C15: the flag-setting calls are idempotent and commutative: each one leaves
\* flag OR (the call sets), so after any calls made since a reset, in whatever
\* order, the flag is true iff at least one of them was a mark, a qualifying
\* tool execution or a restore of exactly true.
C15_SettersCommute ==
    /\ [][IsFlagSetter(lastCall')
            => chromeInChromeMcpUsed' = (chromeInChromeMcpUsed \/ SetsFlag(lastCall'))]_vars
    /\ [](chromeInChromeMcpUsed <=> ~NothingSetSinceReset)

\* All three kinds of setting calls were made, and the last call was a
\* restore of "not used" after them.
C15_Witness ==
    /\ chromeInChromeMcpUsed
    /\ marks.sinceReset
    /\ seen.toolSinceReset >= 1
    /\ seen.restoredTrueSinceReset
    /\ lastCall.op = "restoreSessionState"
    /\ ~IsNullish(lastCall.arg)
    /\ RestoredField(lastCall) = "false"

\* C16: resetState returns the module to its initial state: right after it,
\* and until the next mark, qualifying tool execution or restore of true, the
\* flag is false, getChromeInChromeMcpBetaHeader() is null and
\* addChromeMcpBetaHeaderIfNeeded(L) is L for every L.
C16_ResetIsInitial ==
    (lastCall.op = "resetState" \/ NothingSetSinceReset)
        => /\ ~chromeInChromeMcpUsed
           /\ getChromeInChromeMcpBetaHeader = NULL
           /\ \A L \in HeaderLists : addChromeMcpBetaHeaderIfNeeded(L) = L
           /\ lastCall.op = "addChromeMcpBetaHeaderIfNeeded" => lastCall.ret = lastCall.arg

\* A request built after a used session was reset comes back without the marker.
C16_Witness ==
    /\ marks.ever
    /\ seen.restoredTrue
    /\ NothingSetSinceReset
    /\ lastCall.op = "addChromeMcpBetaHeaderIfNeeded"
    /\ lastCall.arg = <<"beta-1", "browser-use">>
    /\ lastCall.ret = <<"beta-1", "browser-use">>

\* C17: the two tool hooks are equivalent: every step of
\* handleChromeInChromeMcpToolUse(name, input, result) is a step that
\* onToolExecuted(name) can take from the same state, so it leaves the flag at
\* (flag before OR the name has the prefix), whatever input and result are.
C17_HooksEquivalent ==
    [][lastCall'.op = "handleChromeInChromeMcpToolUse"
          => /\ onToolExecuted(lastCall'.arg.toolName)
             /\ chromeInChromeMcpUsed' =
                    (chromeInChromeMcpUsed
                        \/ startsWith(lastCall'.arg.toolName, QualifyingPrefix))]_vars

\* The hook set the flag for a qualifying tool whose result was an error.
C17_Witness ==
    /\ chromeInChromeMcpUsed
    /\ lastCall.op = "handleChromeInChromeMcpToolUse"
    /\ lastCall.arg.toolName = QualifyingPrefix \o <<"c", "l", "i", "c", "k">>
    /\ lastCall.arg.toolResult = "{is_error: true}"
    /\ seen.toolSinceReset = 0
    /\ ~seen.restoredTrueSinceReset

\* C18: addChromeMcpBetaHeaderIfNeeded never modifies the list it is given:
\* after the call the caller's array holds the same elements in the same
\* order, and when the marker is appended the array returned is another array
\* than the caller's; the array returned holds the result.
C18_InputListUntouched ==
    lastCall.op = "addChromeMcpBetaHeaderIfNeeded"
        => /\ lastCall.heap[1] = lastCall.arg
           /\ lastCall.ret # lastCall.arg => lastCall.ref # 1
           /\ lastCall.heap[lastCall.ref] = lastCall.ret

\* The marker was appended: the caller's array still holds its one value and
\* the result is a second array.
C18_Witness ==
    /\ chromeInChromeMcpUsed
    /\ lastCall.op = "addChromeMcpBetaHeaderIfNeeded"
    /\ lastCall.arg = <<"browser-use">>
    /\ lastCall.ref = 2
    /\ lastCall.heap = << <<"browser-use">>, <<"browser-use", "browser-use-YYYYMMDD">> >>

====
